---- MODULE Spec2Model ----
(***************************************************************************)
(* The HTTP wrapper of the MCP Memory Service add-on                       *)
(* (mcp-memory-service/rootfs/app/http-wrapper-oauth.js): the in-process   *)
(* OAuth 2.1 authorization server (client registry, authorization code     *)
(* store, token endpoint, SimpleJWT codec), the authentication middleware  *)
(* and the memory routes behind it.                                        *)
(*                                                                         *)
(* Conventions.  A JavaScript string that the code only compares is a TLA+ *)
(* string; a value produced by crypto.randomBytes is a tagged tuple        *)
(* <<tag, n>> whose n is the number of the draw (a draw never repeats an   *)
(* earlier one); a JWT is the sequence of its dot-separated parts; the     *)
(* clock Date.now() is the variable now, in milliseconds.                  *)
(***************************************************************************)
EXTENDS Integers, Sequences, FiniteSets, TLC

\* JavaScript's undefined (an absent header, query parameter or body field).
Undefined == "undefined"

---------------------------------------------------------------------------
(* Bounds of the model *)

\* Registrations explored (POST /oauth/register).
MaxClients == 2
\* Authorization codes drawn (GET /oauth/authorize).
MaxCodes == 1
\* Clock advances explored.
MaxTicks == 2
\* Memories stored (POST /memory/store).
MaxMemories == 2
\* Token requests in flight at the same time.
MaxPending == 2
\* Restarts of the service.
MaxRestarts == 1
\* Authorization flows side by side.
MaxFlows == 2

---------------------------------------------------------------------------
(* Configuration: http-wrapper-oauth.js lines 23-27 *)

OAUTH_SECRET_KEY == "server-secret"
OAUTH_ACCESS_TOKEN_EXPIRE_MINUTES == 60
OAUTH_AUTHORIZATION_CODE_EXPIRE_MINUTES == 10

\* A signing secret that is not the server's.
OtherSecret == "other-secret"

\* Lifetime of an authorization code in milliseconds (line 468).
CodeTtlMs == OAUTH_AUTHORIZATION_CODE_EXPIRE_MINUTES * 60 * 1000
\* Lifetime of an access token in seconds (lines 520, 532) and milliseconds.
TokenTtlSec == OAUTH_ACCESS_TOKEN_EXPIRE_MINUTES * 60
TokenTtlMs == TokenTtlSec * 1000

---------------------------------------------------------------------------
(* SimpleJWT: lines 37-80 *)

\* The properties of the objects passed to JSON.stringify whose value can be
\* undefined (scope: an authorize request without a scope parameter); the
\* others always hold a number or a string.
OptionalKeys == {"scope"}

\* JSON.stringify of an object: a property whose value is undefined is left
\* out of the text.
JsonStringify(obj) ==
    <<"json", [k \in {f \in DOMAIN obj :
                        f \in OptionalKeys => obj[f] # Undefined} |-> obj[k]]>>

\* JSON.parse of a text produced by JSON.stringify.
JsonParse(text) == text[2]

\* Buffer.from(s).toString('base64url') and its inverse.
Base64Url(s) == <<"b64u", s>>
Base64UrlDecode(e) == e[2]

\* crypto.createHmac('sha256', secret).update(`${h}.${p}`).digest('base64url'):
\* a keyed hash without collisions.
Hmac(secret, h, p) == <<"hmac", secret, h, p>>

JwtHeader == [alg |-> "HS256", typ |-> "JWT"]

\* An encode that signs the payload segment alone.
encodeSignsPayloadOnly(payload, secret) ==
    LET headerEncoded == Base64Url(JsonStringify(JwtHeader))
        payloadEncoded == Base64Url(JsonStringify(payload))
    IN  <<headerEncoded, payloadEncoded,
          Hmac(secret, payloadEncoded, payloadEncoded)>>

\* encode(payload) of a SimpleJWT constructed with secret.
encode(payload, secret) ==
    LET headerEncoded == Base64Url(JsonStringify(JwtHeader))
        payloadEncoded == Base64Url(JsonStringify(payload))
    IN  <<headerEncoded, payloadEncoded,
          Hmac(secret, headerEncoded, payloadEncoded)>>

\* A decode that returns the payload of any three-part token.
decodeUnverified(token, secret) ==
    IF Len(token) # 3
    THEN [ok |-> FALSE, error |-> "Invalid JWT format"]
    ELSE [ok |-> TRUE, payload |-> JsonParse(Base64UrlDecode(token[2]))]

\* decode(token) of a SimpleJWT constructed with secret: the payload, or the
\* message of the Error it throws.
decode(token, secret) ==
    IF Len(token) # 3
    THEN [ok |-> FALSE, error |-> "Invalid JWT format"]
    ELSE IF token[3] # Hmac(secret, token[1], token[2])
    THEN [ok |-> FALSE, error |-> "Invalid signature"]
    ELSE [ok |-> TRUE, payload |-> JsonParse(Base64UrlDecode(token[2]))]

---------------------------------------------------------------------------
(* State *)

VARIABLES
    OAUTH_ENABLED,       \* line 24
    AUTH_ENABLED,        \* process.env.AUTH_ENABLED === 'true'
    API_KEY,             \* process.env.API_KEY
    oauthClients,        \* line 30: Map client_id -> registration record
    authorizationCodes,  \* line 31: Map code -> pending grant
    fallbackMode,        \* MCPMemoryService.fallbackMode
    memories,            \* MCPMemoryService.memories
    memoryFile,          \* memories.json: whether it exists, parses, its content
    listening,           \* app.listen has been called
    process,             \* MCPMemoryService.process: the child, running,
                         \* exited, or failed to start
    isReady,             \* MCPMemoryService.isReady
    timer,               \* the 30 s timer of startMCPService: armed, fired,
                         \* or gone with the wrapper process
    now,                 \* Date.now(), milliseconds
    ticks,               \* clock advances so far
    codesDrawn,          \* authorization codes drawn so far
    tokenLog,            \* history: the successful token exchanges, in order
    authorizeLog,        \* history: code -> the query it was issued for
    writes,              \* fs.writeFile calls of saveFallbackMemories in flight
    acked,               \* history: store and delete responses and restarts
    pending,             \* token requests received and not yet dispatched
    last                 \* the last request handled and its response

config == <<OAUTH_ENABLED, AUTH_ENABLED, API_KEY>>
oauth == <<oauthClients, authorizationCodes, codesDrawn, tokenLog,
          authorizeLog>>
memory == <<fallbackMode, memories, memoryFile>>
clock == <<now, ticks>>
disk == <<writes, acked>>
child == <<process, isReady, timer>>
vars == <<config, oauth, memory, disk, listening, child, clock, pending, last>>

\* No request handled yet.
NoRequest == [op |-> "none"]

\* memories.json does not exist (first start on an empty data directory).
NoFile == [exists |-> FALSE, parses |-> FALSE, data |-> << >>]
\* memories.json holds JSON.stringify(mems).
JsonFile(mems) == [exists |-> TRUE, parses |-> TRUE, data |-> mems]
\* memories.json holds the bytes of two writes laid over each other.
TornFile == [exists |-> TRUE, parses |-> FALSE, data |-> << >>]

\* The state after the module has been loaded under the given environment
\* (lines 24-31, 131-137, 375) and startServer() (line 725) has run up to its
\* first await: the child process is spawned (line 162) and the 30 s timer
\* is set (line 201).
InitWith(oauthEnabled, authEnabled, apiKey) ==
    /\ OAUTH_ENABLED = oauthEnabled
    /\ AUTH_ENABLED = authEnabled
    /\ API_KEY = apiKey
    /\ oauthClients = << >>
    /\ authorizationCodes = << >>
    /\ fallbackMode = FALSE
    /\ memories = << >>
    /\ memoryFile = NoFile
    /\ listening = FALSE
    /\ process = "running"
    /\ isReady = FALSE
    /\ timer = "armed"
    /\ now = 0
    /\ ticks = 0
    /\ codesDrawn = 0
    /\ tokenLog = << >>
    /\ authorizeLog = << >>
    /\ writes = << >>
    /\ acked = << >>
    /\ pending = << >>
    /\ last = NoRequest

---------------------------------------------------------------------------
(* Startup: lines 143-152, 200-222, 685-691 *)

\* loadFallbackMemories: the parsed file, or [] when it cannot be read.
loadFallbackMemories(file) ==
    IF file.exists /\ file.parses THEN file.data ELSE << >>

\* The 30 s timer of startMCPService fires before the child process has
\* announced 'Server started': start() switches to fallback mode, loads
\* memories.json, and startServer() starts listening.
StartTimeout ==
    /\ ~listening
    /\ timer = "armed"
    /\ ~isReady
    /\ timer' = "fired"
    /\ fallbackMode' = TRUE
    /\ memories' = loadFallbackMemories(memoryFile)
    /\ listening' = TRUE
    /\ UNCHANGED <<config, oauth, memoryFile, disk, process, isReady, clock,
                   pending, last>>

\* Time passes: Date.now() grows by d milliseconds.
Tick(d) ==
    /\ ticks < MaxTicks
    /\ now' = now + d
    /\ ticks' = ticks + 1
    /\ UNCHANGED <<config, oauth, memory, disk, listening, child, pending, last>>

---------------------------------------------------------------------------
(* Client registry: POST /oauth/register, lines 419-446 *)

\* A generator that hands every registration the same client_id.
ClientIdRepeated(n) == <<"mcp_client_", 1>>

\* The n-th value of `mcp_client_${crypto.randomBytes(8).toString('hex')}`.
ClientIdOf(n) == <<"mcp_client_", n>>
\* The n-th value of crypto.randomBytes(16).toString('hex') drawn as a secret.
ClientSecretOf(n) == <<"secret", n>>

RegisteredCount == Cardinality(DOMAIN oauthClients)

\* Map.set(key, value).
MapSet(map, key, value) ==
    [k \in DOMAIN map \cup {key} |-> IF k = key THEN value ELSE map[k]]

\* Map.delete(key).
MapDelete(map, key) == [k \in DOMAIN map \ {key} |-> map[k]]

Register(client_name, redirect_uris, scope) ==
    /\ listening /\ OAUTH_ENABLED
    /\ RegisteredCount < MaxClients
    /\ LET clientId == ClientIdOf(RegisteredCount + 1)
           clientSecret == ClientSecretOf(RegisteredCount + 1)
           client == [client_id |-> clientId,
                      client_secret |-> clientSecret,
                      client_name |-> client_name,
                      redirect_uris |-> redirect_uris,
                      grant_types |-> <<"authorization_code">>,
                      response_types |-> <<"code">>,
                      scope |-> scope,
                      token_endpoint_auth_method |-> "client_secret_basic",
                      created_at |-> now]
       IN  /\ oauthClients' = MapSet(oauthClients, clientId, client)
           /\ last' = [op |-> "register", status |-> 200, body |-> client]
    /\ UNCHANGED <<config, authorizationCodes, codesDrawn, tokenLog,
                   authorizeLog, memory, disk, listening, child, clock, pending>>

---------------------------------------------------------------------------
(* Authorization endpoint: GET /oauth/authorize, lines 452-486 *)

UriA == "http://localhost:3000/callback"
UriB == "http://evil.example/callback"
NotAUrl == "not a url"

\* new URL(s) returns (rather than throws a TypeError).
IsUrl(s) == s \in {UriA, UriB}

\* The n-th value of crypto.randomBytes(16).toString('hex') drawn as a code.
AuthCodeOf(n) == <<"code", n>>

\* The checks without the look-up of the client.
ResponseTypeCheckedOnly(clients, query) ==
    IF query.response_type # "code" THEN "unsupported_response_type"
    ELSE Undefined

\* The two checks in the opposite order.
ClientCheckedFirst(clients, query) ==
    IF query.client_id \notin DOMAIN clients THEN "invalid_client"
    ELSE IF query.response_type # "code" THEN "unsupported_response_type"
    ELSE Undefined

\* The checks of lines 456-463: the error the request is refused with, or
\* Undefined if it passes both.
AuthorizeRejection(clients, query) ==
    IF query.response_type # "code" THEN "unsupported_response_type"
    ELSE IF query.client_id \notin DOMAIN clients THEN "invalid_client"
    ELSE Undefined

\* The handler as a function of the stores, the clock and the query: the
\* response and the code store it leaves.
AuthorizeHandler(clients, codes, drawn, time, query) ==
    IF AuthorizeRejection(clients, query) # Undefined
    THEN [status |-> 400, error |-> AuthorizeRejection(clients, query),
          codes |-> codes, drew |-> FALSE]
    ELSE LET authCode == AuthCodeOf(drawn + 1)
             expiresAt == time + CodeTtlMs
             stored == MapSet(codes, authCode,
                              [client_id |-> query.client_id,
                               redirect_uri |-> query.redirect_uri,
                               scope |-> query.scope,
                               expires_at |-> expiresAt])
         IN  IF IsUrl(query.redirect_uri)
             THEN [status |-> 302, error |-> Undefined,
                   location |-> [uri |-> query.redirect_uri,
                                 code |-> authCode,
                                 state |-> query.state],
                   codes |-> stored, drew |-> TRUE]
             ELSE [status |-> 400, error |-> "Invalid authorization request",
                   codes |-> stored, drew |-> TRUE]

\* The handler with at most limit codes drawn in a run.
AuthorizeWithin(limit, client_id, response_type, redirect_uri, scope, state) ==
    /\ listening /\ OAUTH_ENABLED
    /\ LET query == [client_id |-> client_id, response_type |-> response_type,
                     redirect_uri |-> redirect_uri, scope |-> scope,
                     state |-> state]
           r == AuthorizeHandler(oauthClients, authorizationCodes, codesDrawn,
                                 now, query)
       IN  /\ r.drew => codesDrawn < limit
           /\ authorizationCodes' = r.codes
           /\ codesDrawn' = IF r.drew THEN codesDrawn + 1 ELSE codesDrawn
           /\ authorizeLog' = IF r.drew
                               THEN MapSet(authorizeLog,
                                           AuthCodeOf(codesDrawn + 1),
                                           [at |-> now] @@ query)
                               ELSE authorizeLog
           /\ last' = [op |-> "authorize", req |-> query, status |-> r.status,
                       error |-> r.error,
                       location |-> IF r.status = 302 THEN r.location
                                    ELSE Undefined]
    /\ UNCHANGED <<config, oauthClients, tokenLog, memory, disk, listening, child,
                   clock, pending>>

Authorize(client_id, response_type, redirect_uri, scope, state) ==
    AuthorizeWithin(MaxCodes, client_id, response_type, redirect_uri, scope,
                    state)
---------------------------------------------------------------------------
(* Token endpoint: POST /oauth/token, lines 492-539 *)

\* The token endpoint forgets to clean up the authorization code.
KeepCode(codes, code) == codes

\* "Clean up authorization code": authorizationCodes.delete(code), line 527.
RedeemCode(codes, code) == MapDelete(codes, code)

\* A payload whose lifetime is the configured number taken as seconds.
PayloadExpInMinutes(client_id, scope, time) ==
    [client_id |-> client_id,
     scope |-> scope,
     iat |-> time \div 1000,
     exp |-> (time \div 1000) + OAUTH_ACCESS_TOKEN_EXPIRE_MINUTES,
     sub |-> client_id]

\* The access token payload of lines 516-522, minted at clock value time.
AccessTokenPayload(client_id, scope, time) ==
    [client_id |-> client_id,
     scope |-> scope,
     iat |-> time \div 1000,
     exp |-> (time \div 1000) + TokenTtlSec,
     sub |-> client_id]

\* An expiry test that refuses the code at its deadline already.
CodeExpiredAtDeadline(time, expires_at) == time >= expires_at

\* Date.now() > authCodeData.expires_at (line 505).
CodeExpired(time, expires_at) == time > expires_at

\* A client check that consumes the code when it refuses the request.
ConsumeCodeOnRejection(codes, code) == MapDelete(codes, code)

\* The code store after the client check has refused the request (lines
\* 510-513): the handler returns before the delete of line 527.
ClientRejected(codes, code) == codes

\* The handler as a function of the stores, the clock and the form body: the
\* response and the code store it leaves.
TokenHandler(clients, codes, time, body) ==
    IF body.grant_type # "authorization_code"
    THEN [status |-> 400, error |-> "unsupported_grant_type", codes |-> codes]
    ELSE IF body.code \notin DOMAIN codes
    THEN [status |-> 400, error |-> "invalid_grant", codes |-> codes]
    ELSE IF CodeExpired(time, codes[body.code].expires_at)
    THEN [status |-> 400, error |-> "invalid_grant",
          codes |-> MapDelete(codes, body.code)]
    ELSE IF \/ body.client_id \notin DOMAIN clients
            \/ clients[body.client_id].client_secret # body.client_secret
    THEN [status |-> 400, error |-> "invalid_client",
          codes |-> ClientRejected(codes, body.code)]
    ELSE LET authCodeData == codes[body.code]
             payload == AccessTokenPayload(body.client_id, authCodeData.scope,
                                           time)
         IN  [status |-> 200, error |-> Undefined,
              codes |-> RedeemCode(codes, body.code),
              body |-> [access_token |-> encode(payload, OAUTH_SECRET_KEY),
                        token_type |-> "Bearer",
                        expires_in |-> TokenTtlSec,
                        scope |-> authCodeData.scope]]

\* The codes some earlier token exchange has succeeded with.
RedeemedCodes == {tokenLog[i].code : i \in DOMAIN tokenLog}

\* One run of the handler on body.  The handler has no await: between its
\* first and its last statement no other callback runs.  overlapped records
\* whether the request waited for dispatch together with another request
\* while its code was still in the store.
TokenRespond(body, overlapped) ==
    /\ listening /\ OAUTH_ENABLED
    /\ Len(tokenLog) <= MaxCodes
    /\ LET r == TokenHandler(oauthClients, authorizationCodes, now, body)
       IN  /\ authorizationCodes' = r.codes
           /\ tokenLog' =
                 IF r.status = 200
                 THEN Append(tokenLog,
                             [code |-> body.code,
                              client_id |-> body.client_id,
                              issued_to |->
                                  authorizationCodes[body.code].client_id,
                              access_token |-> r.body.access_token,
                              at |-> now])
                 ELSE tokenLog
           /\ last' = [op |-> "token", req |-> body, status |-> r.status,
                       error |-> r.error,
                       body |-> IF r.status = 200 THEN r.body ELSE Undefined,
                       redeemedBefore |-> body.code \in RedeemedCodes,
                       overlapped |-> overlapped,
                       at |-> now]
    /\ UNCHANGED <<config, oauthClients, codesDrawn, authorizeLog, memory, disk,
                   listening, child, clock>>

\* A token request that is received and handled with no other token request
\* in flight.
Token(grant_type, code, client_id, client_secret) ==
    /\ DOMAIN pending = {}
    /\ TokenRespond([grant_type |-> grant_type, code |-> code,
                     redirect_uri |-> Undefined, client_id |-> client_id,
                     client_secret |-> client_secret], FALSE)
    /\ UNCHANGED pending

---------------------------------------------------------------------------
(* Client information: GET /oauth/clients/:clientId, lines 545-554 *)

\* A client-information body that is the stored record.
WholeRecord(client) == client

\* const { client_secret, ...clientInfo } = client
ClientInfo(client) ==
    [k \in DOMAIN client \ {"client_secret"} |-> client[k]]

ClientInformation(clientId) ==
    /\ listening /\ OAUTH_ENABLED
    /\ last' = IF clientId \notin DOMAIN oauthClients
               THEN [op |-> "clientinfo", clientId |-> clientId,
                     known |-> FALSE,
                     status |-> 404, error |-> "Client not found",
                     body |-> Undefined]
               ELSE [op |-> "clientinfo", clientId |-> clientId,
                     known |-> TRUE,
                     status |-> 200, error |-> Undefined,
                     body |-> ClientInfo(oauthClients[clientId])]
    /\ UNCHANGED <<config, oauth, memory, disk, listening, child, clock, pending>>

---------------------------------------------------------------------------
(* Authentication middleware: authenticate, lines 90-121 *)

\* Request headers.  authorization is [scheme, cred]: scheme "none" when the
\* header is absent, cred the text after 'Bearer ' as the sequence of its
\* dot-separated parts.  xApiKey is the X-API-Key header or Undefined.
NoAuthorization == [scheme |-> "none", cred |-> << >>]
Bearer(cred) == [scheme |-> "Bearer", cred |-> cred]
\* An API key sent as a bearer credential: one part, no dots.
KeyText(key) == <<<<"raw", key>>>>

\* JavaScript truthiness of a header or environment string.
Truthy(str) == str # Undefined /\ str # ""

Reject(message) ==
    [admit |-> FALSE, status |-> 401, error |-> message,
     authMethod |-> Undefined, user |-> Undefined]
Admit(method, user) ==
    [admit |-> TRUE, status |-> 200, error |-> Undefined,
     authMethod |-> method, user |-> user]

\* `payload.exp && Date.now() / 1000 > payload.exp` with >= for >.
ExpiredAtExp(payload, time) ==
    /\ "exp" \in DOMAIN payload
    /\ payload.exp # 0
    /\ time >= payload.exp * 1000

\* `payload.exp && Date.now() / 1000 > payload.exp` (line 99): the division
\* is exact, so the comparison is time > exp * 1000 on the millisecond clock.
Expired(payload, time) ==
    /\ "exp" \in DOMAIN payload
    /\ payload.exp # 0
    /\ time > payload.exp * 1000

\* The last-but-one branch with || for &&.
OpenIfEitherDisabled(authEnabled, oauthEnabled) ==
    ~authEnabled \/ ~oauthEnabled

\* `process.env.AUTH_ENABLED !== 'true' && !OAUTH_ENABLED` (line 115).
NoAuthenticationRequired(authEnabled, oauthEnabled) ==
    ~authEnabled /\ ~oauthEnabled

\* The decision table with an API key branch that admits any key sent.
authenticateAnyKey(oauthEnabled, authEnabled, apiKey, headers, time) ==
    IF oauthEnabled /\ headers.authorization.scheme = "Bearer"
    THEN LET d == decode(headers.authorization.cred, OAUTH_SECRET_KEY)
         IN  IF ~d.ok THEN Reject("Invalid token")
             ELSE IF Expired(d.payload, time) THEN Reject("Token expired")
             ELSE Admit("oauth", d.payload)
    ELSE IF authEnabled /\ Truthy(headers.xApiKey)
    THEN Admit("api_key", Undefined)
    ELSE IF NoAuthenticationRequired(authEnabled, oauthEnabled)
    THEN Admit(Undefined, Undefined)
    ELSE Reject("Authentication required")

\* The decision table with the API key branch before the bearer branch.
authenticateKeyFirst(oauthEnabled, authEnabled, apiKey, headers, time) ==
    IF authEnabled /\ Truthy(headers.xApiKey)
    THEN IF headers.xApiKey # apiKey THEN Reject("Invalid API key")
         ELSE Admit("api_key", Undefined)
    ELSE IF oauthEnabled /\ headers.authorization.scheme = "Bearer"
    THEN LET d == decode(headers.authorization.cred, OAUTH_SECRET_KEY)
         IN  IF ~d.ok THEN Reject("Invalid token")
             ELSE IF Expired(d.payload, time) THEN Reject("Token expired")
             ELSE Admit("oauth", d.payload)
    ELSE IF NoAuthenticationRequired(authEnabled, oauthEnabled)
    THEN Admit(Undefined, Undefined)
    ELSE Reject("Authentication required")

\* The middleware's decision on a request with these headers at clock value
\* time: next() is called (admit), or a 401 is sent.
authenticate(oauthEnabled, authEnabled, apiKey, headers, time) ==
    IF oauthEnabled /\ headers.authorization.scheme = "Bearer"
    THEN LET d == decode(headers.authorization.cred, OAUTH_SECRET_KEY)
         IN  IF ~d.ok THEN Reject("Invalid token")
             ELSE IF Expired(d.payload, time) THEN Reject("Token expired")
             ELSE Admit("oauth", d.payload)
    ELSE IF authEnabled /\ Truthy(headers.xApiKey)
    THEN IF headers.xApiKey # apiKey THEN Reject("Invalid API key")
         ELSE Admit("api_key", Undefined)
    ELSE IF NoAuthenticationRequired(authEnabled, oauthEnabled)
    THEN Admit(Undefined, Undefined)
    ELSE Reject("Authentication required")

(* The middleware of the wrapper without OAuth: lines 747-755 and 948-956 *)

\* req.headers['authorization']?.replace('Bearer ', ''): the text of the
\* credential; a JWT is a text that equals no API key.
CredText(authorization) ==
    IF authorization.scheme = "none" THEN Undefined
    ELSE IF Len(authorization.cred) = 1 /\ authorization.cred[1][1] = "raw"
    THEN authorization.cred[1][2]
    ELSE "<jwt>"

\* TRUE iff the legacy authenticate calls next().
legacyAuthenticate(authEnabled, apiKey, headers) ==
    IF authEnabled
    THEN LET key == IF Truthy(headers.xApiKey) THEN headers.xApiKey
                    ELSE CredText(headers.authorization)
         IN  ~(~Truthy(key) \/ key # apiKey)
    ELSE TRUE

---------------------------------------------------------------------------
(* MCPMemoryService in fallback mode: lines 228-371 *)

Max(a, b) == IF a > b THEN a ELSE b
Min(a, b) == IF a < b THEN a ELSE b

\* Array.prototype.slice(start, end).
Slice(arr, start, end) ==
    LET n == Len(arr)
        from == IF start < 0 THEN Max(n + start, 0) ELSE Min(start, n)
        to == IF end < 0 THEN Max(n + end, 0) ELSE Min(end, n)
    IN  SubSeq(arr, from + 1, to)

\* String.prototype.toLowerCase on a string given as its characters.
LowerChar(c) == CASE c = "A" -> "a" [] c = "B" -> "b" [] OTHER -> c
toLowerCase(str) == [i \in DOMAIN str |-> LowerChar(str[i])]

\* String.prototype.includes.
includes(str, term) ==
    \E i \in 0..(Len(str) - Len(term)) :
        SubSeq(str, i + 1, i + Len(term)) = term

\* Array.prototype.filter.
Filter(arr, Keep(_)) ==
    LET kept[i \in 0..Len(arr)] ==
            IF i = 0 THEN << >>
            ELSE IF Keep(arr[i]) THEN Append(kept[i - 1], arr[i])
            ELSE kept[i - 1]
    IN  kept[Len(arr)]

\* arr.sort((a, b) => new Date(b.created_at) - new Date(a.created_at)):
\* newest first; the sort is stable, so records of the same millisecond
\* keep their order.
RECURSIVE InsertNewestFirst(_, _)
InsertNewestFirst(sorted, m) ==
    IF sorted = << >> THEN <<m>>
    ELSE IF Head(sorted).created_at >= m.created_at
    THEN <<Head(sorted)>> \o InsertNewestFirst(Tail(sorted), m)
    ELSE <<m>> \o sorted

RECURSIVE SortNewestFirst(_)
SortNewestFirst(arr) ==
    IF arr = << >> THEN << >>
    ELSE InsertNewestFirst(SortNewestFirst(SubSeq(arr, 1, Len(arr) - 1)),
                           arr[Len(arr)])

\* A record whose id is taken from a clock that has moved on since
\* created_at was read.
NewMemoryLaterId(content, tags, time) ==
    [id |-> time + 1, content |-> content, metadata |-> "{}", tags |-> tags,
     created_at |-> time, updated_at |-> time]

\* The record storeMemory builds at clock value time (lines 250-257).
NewMemory(content, tags, time) ==
    [id |-> time, content |-> content, metadata |-> "{}", tags |-> tags,
     created_at |-> time, updated_at |-> time]

\* searchMemories in fallback mode (lines 276-292).
searchMemories(mems, query, tags, limit) ==
    LET Matches(m) == includes(toLowerCase(m.content), toLowerCase(query))
        Tagged(m) == \E i \in DOMAIN tags :
                        \E j \in DOMAIN m.tags : m.tags[j] = tags[i]
        byQuery == IF query # << >> THEN Filter(mems, Matches) ELSE mems
        byTags == IF Len(tags) > 0 THEN Filter(byQuery, Tagged) ELSE byQuery
    IN  Slice(SortNewestFirst(byTags), 0, limit)

\* listMemories in fallback mode (lines 306-315).
listMemories(mems, limit, offset) ==
    [memories |-> Slice(SortNewestFirst(mems), offset, offset + limit),
     total |-> Len(mems), offset |-> offset, limit |-> limit]

\* memories.findIndex(memory => memory.id === id), 1-based; 0 for -1.
findIndex(mems, id) ==
    IF \E i \in DOMAIN mems : mems[i].id = id
    THEN CHOOSE i \in DOMAIN mems :
            /\ mems[i].id = id
            /\ \A j \in 1..(i - 1) : mems[j].id # id
    ELSE 0

\* memories.splice(index, 1).
splice(mems, index) ==
    SubSeq(mems, 1, index - 1) \o SubSeq(mems, index + 1, Len(mems))

\* getStats (lines 358-371).
getStats(fallback, mems) ==
    IF fallback
    THEN [mode |-> "fallback", total_memories |-> Len(mems),
          backend |-> "json_file"]
    ELSE [mode |-> "mcp_service", backend |-> "sqlite_vec"]

NotImplemented == "MCP Service integration not yet implemented"

---------------------------------------------------------------------------
(* Protected routes: lines 576-676 *)

\* What a route handler does once authenticate has called next(): the
\* response, and the memory list and memories.json it leaves.
Handled(status, error, body, mems, file) ==
    [status |-> status, error |-> error, body |-> body, memories |-> mems,
     file |-> file]

\* The content written is taken before the handler has changed the list.
saveStale(mems, changed) == JsonFile(mems)

\* saveFallbackMemories (lines 228-234), called when the list mems has
\* become changed: the content handed to fs.writeFile is
\* JSON.stringify(this.memories), evaluated at the call.
saveFallbackMemories(mems, changed) == JsonFile(changed)

\* A request body without a content field: content is undefined.
MissingContent == <<Undefined>>
\* !content (line 245).
NoContent(content) == content \in {<< >>, MissingContent}

\* POST /memory/store (lines 605-615) with storeMemory (lines 244-265).
storeRoute(fallback, mems, file, time, content, tags) ==
    IF NoContent(content)
    THEN Handled(500, "Content is required", Undefined, mems, file)
    ELSE IF ~fallback
    THEN Handled(500, NotImplemented, Undefined, mems, file)
    ELSE LET m == NewMemory(content, tags, time)
         IN  Handled(200, Undefined,
                     [success |-> TRUE, memory_id |-> m.id, memory |-> m],
                     Append(mems, m),
                     saveFallbackMemories(mems, Append(mems, m)))

\* GET /memory/search (lines 621-631).
searchRoute(fallback, mems, file, query, tags, limit) ==
    IF ~fallback
    THEN Handled(500, NotImplemented, Undefined, mems, file)
    ELSE LET results == searchMemories(mems, query, tags, limit)
         IN  Handled(200, Undefined,
                     [memories |-> results, total |-> Len(results)],
                     mems, file)

\* GET /memory/list (lines 637-646).
listRoute(fallback, mems, file, limit, offset) ==
    IF ~fallback
    THEN Handled(500, NotImplemented, Undefined, mems, file)
    ELSE Handled(200, Undefined, listMemories(mems, limit, offset), mems,
                 file)

\* DELETE /memory/:id (lines 652-662) with deleteMemory (lines 327-339).
deleteRoute(fallback, mems, file, id) ==
    IF ~fallback
    THEN Handled(500, NotImplemented, Undefined, mems, file)
    ELSE IF findIndex(mems, id) = 0
    THEN Handled(500, "Memory not found", Undefined, mems, file)
    ELSE LET left == splice(mems, findIndex(mems, id))
         IN  Handled(200, Undefined, [success |-> TRUE], left,
                     saveFallbackMemories(mems, left))

\* GET /memory/stats (lines 668-676).
statsRoute(fallback, mems, file) ==
    Handled(200, Undefined, getStats(fallback, mems), mems, file)

\* GET /info (lines 576-599).
infoRoute(fallback, mems, file, authMethod) ==
    LET stats == getStats(fallback, mems)
    IN  Handled(200, Undefined,
                [service |-> "MCP Memory Service", mode |-> stats.mode,
                 backend |-> stats.backend,
                 total_memories |-> IF fallback THEN stats.total_memories
                                    ELSE 0,
                 auth_method |-> authMethod],
                mems, file)

\* A request to a route registered with the authenticate middleware: the
\* handler (whose outcome is handled) runs only if authenticate calls next().
\* sent describes how the client built its credential.
Protected(op, headers, sent, params, a, handled) ==
    /\ listening
    /\ memories' = IF a.admit THEN handled.memories ELSE memories
    /\ memoryFile' = IF a.admit THEN handled.file ELSE memoryFile
    /\ last' = [op |-> op, headers |-> headers, kind |-> sent.kind,
                index |-> sent.index,
                params |-> params,
                status |-> IF a.admit THEN handled.status ELSE a.status,
                error |-> IF a.admit THEN handled.error ELSE a.error,
                body |-> IF a.admit THEN handled.body ELSE Undefined,
                ran |-> a.admit,
                authMethod |-> a.authMethod,
                user |-> a.user,
                memoriesBefore |-> memories,
                fileBefore |-> memoryFile,
                at |-> now]
    /\ UNCHANGED <<config, oauth, fallbackMode, disk, listening, child, clock, pending>>

Authenticated(headers) ==
    authenticate(OAUTH_ENABLED, AUTH_ENABLED, API_KEY, headers, now)

Info(headers, sent) ==
    LET a == Authenticated(headers)
    IN  Protected("info", headers, sent, << >>, a,
                  infoRoute(fallbackMode, memories, memoryFile, a.authMethod))

StoreMemory(headers, sent, content, tags) ==
    /\ Len(memories) < MaxMemories
    /\ Protected("store", headers, sent, <<content, tags>>,
                 Authenticated(headers),
                 storeRoute(fallbackMode, memories, memoryFile, now, content,
                            tags))

SearchMemories(headers, sent, query, tags, limit) ==
    Protected("search", headers, sent, <<query, tags, limit>>,
              Authenticated(headers),
              searchRoute(fallbackMode, memories, memoryFile, query, tags,
                          limit))

ListMemories(headers, sent, limit, offset) ==
    Protected("list", headers, sent, <<limit, offset>>,
              Authenticated(headers),
              listRoute(fallbackMode, memories, memoryFile, limit, offset))

DeleteMemory(headers, sent, id) ==
    Protected("delete", headers, sent, <<id>>, Authenticated(headers),
              deleteRoute(fallbackMode, memories, memoryFile, id))

Stats(headers, sent) ==
    Protected("stats", headers, sent, << >>, Authenticated(headers),
              statsRoute(fallbackMode, memories, memoryFile))

ProtectedOps == {"info", "store", "search", "list", "delete", "stats"}

---------------------------------------------------------------------------
(* Requests that clients send *)

ClientNames == {"Test"}
RedirectUriLists == {<<UriA>>}
RegisteredScopes == {"read write"}
RedirectUris == {UriA, UriB, NotAUrl}

\* A client_id and a secret that no registration has produced.
UnknownClient == ClientIdOf(0)
WrongSecret == ClientSecretOf(0)
\* A code that the authorization endpoint has not produced.
UnknownCode == AuthCodeOf(0)

\* Authorize queries: every registered or unknown client with every
\* redirect_uri, and a request for the implicit flow.
AuthorizeQueries ==
    {[client_id |-> c, response_type |-> "code", redirect_uri |-> u,
      scope |-> "read"] :
        c \in DOMAIN oauthClients \cup {UnknownClient}, u \in RedirectUris}
    \cup {[client_id |-> c, response_type |-> "token", redirect_uri |-> UriA,
           scope |-> "read"] : c \in DOMAIN oauthClients \cup {UnknownClient}}

\* Credentials a token request may carry: a registered client with its own
\* secret or with a wrong one, or a client that was never registered.
Credentials ==
    {<<c, oauthClients[c].client_secret>> : c \in DOMAIN oauthClients}
    \cup {<<c, WrongSecret>> : c \in DOMAIN oauthClients}
    \cup {<<UnknownClient, WrongSecret>>}

\* The codes drawn so far, in the store or not, and an unknown one.
KnownCodes == {AuthCodeOf(n) : n \in 1..codesDrawn}

TokenBodies ==
    {[grant_type |-> "authorization_code", code |-> c, client_id |-> cr[1],
      client_secret |-> cr[2]] :
        c \in KnownCodes \cup {UnknownCode}, cr \in Credentials}
    \cup {[grant_type |-> "client_credentials", code |-> c,
           client_id |-> cr[1], client_secret |-> cr[2]] :
            c \in KnownCodes,
            cr \in {<<k, oauthClients[k].client_secret>> :
                        k \in DOMAIN oauthClients}}

---------------------------------------------------------------------------
(* Spec: the authorization server, requests handled one at a time at one  *)
(* reading of the clock, OAuth enabled                                     *)

Init == InitWith(TRUE, FALSE, Undefined)

RegisterReq ==
    \E n \in ClientNames, u \in RedirectUriLists, sc \in RegisteredScopes :
        Register(n, u, sc)

AuthorizeReq ==
    \E q \in AuthorizeQueries :
        Authorize(q.client_id, q.response_type, q.redirect_uri, q.scope,
                  "xyz")

TokenReq ==
    \E b \in TokenBodies :
        Token(b.grant_type, b.code, b.client_id, b.client_secret)

ClientInfoReq ==
    \E c \in DOMAIN oauthClients \cup {UnknownClient} : ClientInformation(c)

Next ==
    \/ StartTimeout
    \/ RegisterReq
    \/ AuthorizeReq
    \/ TokenReq
    \/ ClientInfoReq

Spec == Init /\ [][Next]_vars

---------------------------------------------------------------------------
(* SpecConcurrent: token requests in flight at the same time.  The bodies *)
(* of form-encoded requests are read from their sockets asynchronously,   *)
(* so requests reach the handler in any order; the handler itself runs    *)
(* from its first to its last statement without yielding.                 *)

\* pending is a bag: pending[b] is the number of received requests with
\* body b that have not been dispatched.
PendingCount ==
    LET Sum[S \in SUBSET DOMAIN pending] ==
            IF S = {} THEN 0
            ELSE LET b == CHOOSE x \in S : TRUE
                 IN  pending[b] + Sum[S \ {b}]
    IN  Sum[DOMAIN pending]

\* A token request for a code that is in the store arrives.
TokenReceive(body) ==
    /\ listening /\ OAUTH_ENABLED
    /\ body.code \in DOMAIN authorizationCodes
    /\ PendingCount < MaxPending
    /\ pending' = MapSet(pending, body,
                         IF body \in DOMAIN pending THEN pending[body] + 1
                         ELSE 1)
    /\ UNCHANGED <<config, oauth, memory, disk, listening, child, clock, last>>

\* The handler runs on one of the requests in flight.
TokenDispatch(body) ==
    /\ body \in DOMAIN pending
    /\ TokenRespond(body, TRUE)
    /\ pending' = IF pending[body] = 1 THEN MapDelete(pending, body)
                  ELSE MapSet(pending, body, pending[body] - 1)

\* Exchanges of a code in the store: by a registered client with its own
\* credentials, or by the client the code was issued to with a wrong secret.
ExchangeBodies ==
    {[grant_type |-> "authorization_code", code |-> c, redirect_uri |-> UriA,
      client_id |-> k, client_secret |-> oauthClients[k].client_secret] :
        c \in DOMAIN authorizationCodes, k \in DOMAIN oauthClients}
    \cup {[grant_type |-> "authorization_code", code |-> c,
           redirect_uri |-> UriA,
           client_id |-> authorizationCodes[c].client_id,
           client_secret |-> WrongSecret] : c \in DOMAIN authorizationCodes}

FlowRegister == Register("Test", <<UriA>>, "read write")

FlowAuthorize ==
    \E c \in DOMAIN oauthClients, sc \in {"read", "write"} :
        Authorize(c, "code", UriA, sc, "xyz")

TokenArrives == \E b \in ExchangeBodies : TokenReceive(b)

TokenRuns == \E b \in DOMAIN pending : TokenDispatch(b)

NextConcurrent ==
    \/ StartTimeout
    \/ FlowRegister
    \/ FlowAuthorize
    \/ TokenArrives
    \/ TokenRuns

SpecConcurrent == Init /\ [][NextConcurrent]_vars

---------------------------------------------------------------------------
(* The test server: test-server.js, its middleware and memory routes *)

\* authenticate of the test server (lines 61-87): a bearer token is
\* decoded, any X-API-Key is accepted, and a request without credentials
\* proceeds.
testAuthenticate(headers, time) ==
    IF headers.authorization.scheme = "Bearer"
    THEN LET d == decode(headers.authorization.cred, OAUTH_SECRET_KEY)
         IN  IF ~d.ok THEN Reject("Invalid token")
             ELSE IF Expired(d.payload, time) THEN Reject("Token expired")
             ELSE Admit("oauth", d.payload)
    ELSE IF Truthy(headers.xApiKey) THEN Admit("api_key", Undefined)
    ELSE Admit(Undefined, Undefined)

\* POST /memory/store of the test server (lines 282-307).
testStoreRoute(mems, time, content, tags) ==
    IF NoContent(content)
    THEN Handled(400, "Content is required", Undefined, mems, NoFile)
    ELSE LET m == NewMemory(content, tags, time)
         IN  Handled(200, Undefined,
                     [success |-> TRUE, memory_id |-> m.id, memory |-> m],
                     Append(mems, m), NoFile)

\* GET /memory/search of the test server (lines 312-338).
testSearchRoute(mems, query, tags, limit) ==
    LET results == searchMemories(mems, query, tags, limit)
    IN  Handled(200, Undefined, [memories |-> results, total |-> Len(results)],
                mems, NoFile)

\* GET /memory/list of the test server (lines 344-366).
testListRoute(mems, limit, offset) ==
    Handled(200, Undefined, listMemories(mems, limit, offset), mems, NoFile)

\* DELETE /memory/:id of the test server (lines 371-388).
testDeleteRoute(mems, id) ==
    IF findIndex(mems, id) = 0
    THEN Handled(404, "Memory not found", Undefined, mems, NoFile)
    ELSE Handled(200, Undefined, [success |-> TRUE],
                 splice(mems, findIndex(mems, id)), NoFile)

\* The test server's answer to a request to a memory route, and the list
\* it leaves, when its list is mems and its clock reads time.
testServer(op, headers, params, mems, time) ==
    LET a == testAuthenticate(headers, time)
        handled ==
            CASE op = "store" ->
                     testStoreRoute(mems, time, params[1], params[2])
              [] op = "search" ->
                     testSearchRoute(mems, params[1], params[2], params[3])
              [] op = "list" -> testListRoute(mems, params[1], params[2])
              [] op = "delete" -> testDeleteRoute(mems, params[1])
    IN  IF a.admit
        THEN [status |-> handled.status, error |-> handled.error,
              body |-> handled.body, memories |-> handled.memories]
        ELSE [status |-> a.status, error |-> a.error, body |-> Undefined,
              memories |-> mems]

---------------------------------------------------------------------------
(* Credentials that requests to the protected routes carry *)

ConfiguredKey == "key1"
WrongKey == "wrong-key"

PayloadOf(token) == JsonParse(Base64UrlDecode(token[2]))

\* The same claims signed with a secret that is not the server's.
Resigned(token) == encode(PayloadOf(token), OtherSecret)
\* The payload replaced after signing (a later exp), signature kept.
PayloadChanged(token) ==
    <<token[1],
      Base64Url(JsonStringify([PayloadOf(token) EXCEPT
                                   !.exp = @ + TokenTtlSec])),
      token[3]>>
\* The header replaced after signing, signature kept.
HeaderChanged(token) ==
    <<Base64Url(JsonStringify([alg |-> "none", typ |-> "JWT"])), token[2],
      token[3]>>
\* The signature cut off; a fourth part added.
TwoParts(token) == <<token[1], token[2]>>
FourParts(token) == token \o <<token[3]>>
\* A token made without the server: any claims, another secret.
Foreign ==
    encode(AccessTokenPayload(UnknownClient, "read write", now), OtherSecret)

Headers(authorization, xApiKey) ==
    [authorization |-> authorization, xApiKey |-> xApiKey]
Sending(kind, index, headers) ==
    [kind |-> kind, index |-> index, headers |-> headers]

\* Ways of building a bearer credential that is not a token of this server.
BadKinds ==
    {"resigned", "payload changed", "header changed", "two parts",
     "four parts", "foreign"}

\* Requests without a token of this server.
KeyCredentials ==
    {Sending("anonymous", 0, Headers(NoAuthorization, Undefined)),
     Sending("x-api-key", 0, Headers(NoAuthorization, ConfiguredKey)),
     Sending("wrong x-api-key", 0, Headers(NoAuthorization, WrongKey)),
     Sending("bearer api key", 0,
             Headers(Bearer(KeyText(ConfiguredKey)), Undefined)),
     Sending("foreign", 0, Headers(Bearer(Foreign), ConfiguredKey)),
     Sending("empty x-api-key", 0, Headers(NoAuthorization, ""))}

\* Requests with the i-th access token issued, as issued or altered.
TokenCredentials ==
    UNION {LET t == tokenLog[i].access_token
           IN  {Sending("issued", i, Headers(Bearer(t), Undefined)),
                Sending("issued with wrong x-api-key", i,
                        Headers(Bearer(t), WrongKey)),
                Sending("resigned", i, Headers(Bearer(Resigned(t)), Undefined)),
                Sending("payload changed", i,
                        Headers(Bearer(PayloadChanged(t)), Undefined)),
                Sending("header changed", i,
                        Headers(Bearer(HeaderChanged(t)), Undefined)),
                Sending("two parts", i, Headers(Bearer(TwoParts(t)), Undefined)),
                Sending("four parts", i,
                        Headers(Bearer(FourParts(t)), Undefined))}
           : i \in DOMAIN tokenLog}

IssuedCredentials == {c \in TokenCredentials : c.kind = "issued"}

---------------------------------------------------------------------------
(* SpecAuth: the protected routes under every combination of OAUTH_ENABLED *)
(* and AUTH_ENABLED, at one reading of the clock; one client registers    *)
(* and obtains tokens by the regular flow                                 *)

InitAuth ==
    \E oauthEnabled \in BOOLEAN, authEnabled \in BOOLEAN :
        InitWith(oauthEnabled, authEnabled, ConfiguredKey)

OneRegister == RegisteredCount = 0 /\ FlowRegister

\* The code is exchanged by the client it was issued to.
FlowToken ==
    \E c \in DOMAIN authorizationCodes :
        LET k == authorizationCodes[c].client_id
        IN  Token("authorization_code", c, k, oauthClients[k].client_secret)

Contents == {<< >>, <<"a", "B">>}
Queries == {<<"b">>}
StoredIds == {memories[i].id : i \in DOMAIN memories}

InfoReq ==
    \E c \in KeyCredentials \cup TokenCredentials : Info(c.headers, c)
StoreReq ==
    \E c \in KeyCredentials \cup TokenCredentials, content \in Contents :
        StoreMemory(c.headers, c, content, << >>)
SearchReq ==
    \E c \in KeyCredentials \cup TokenCredentials, q \in Queries :
        SearchMemories(c.headers, c, q, << >>, 10)
ListReq ==
    \E c \in KeyCredentials \cup TokenCredentials :
        ListMemories(c.headers, c, 50, 0)
DeleteReq ==
    \E c \in KeyCredentials \cup TokenCredentials,
       id \in StoredIds \cup {now + 1} :
        DeleteMemory(c.headers, c, id)
StatsReq ==
    \E c \in KeyCredentials \cup TokenCredentials : Stats(c.headers, c)

NextAuth ==
    \/ StartTimeout
    \/ OneRegister
    \/ FlowAuthorize
    \/ FlowToken
    \/ InfoReq
    \/ StoreReq
    \/ SearchReq
    \/ ListReq
    \/ DeleteReq
    \/ StatsReq

SpecAuth == InitAuth /\ [][NextAuth]_vars

---------------------------------------------------------------------------
(* SpecExpiry: issued tokens presented as the clock advances, OAuth        *)
(* enabled                                                                 *)

TokenClock == \E d \in {1, TokenTtlMs} : Tick(d)

InfoWithToken == \E c \in IssuedCredentials : Info(c.headers, c)
ListWithToken == \E c \in IssuedCredentials : ListMemories(c.headers, c, 50, 0)

NextExpiry ==
    \/ StartTimeout
    \/ OneRegister
    \/ FlowAuthorize
    \/ FlowToken
    \/ TokenClock
    \/ InfoWithToken
    \/ ListWithToken

SpecExpiry == Init /\ [][NextExpiry]_vars

---------------------------------------------------------------------------
(* Properties of the authorization server *)

\* C1: once a token request has succeeded with a code, every later request
\* that presents the same code for exchange (grant_type authorization_code)
\* is answered 400 invalid_grant, whatever credentials it carries.
C1_ReusedCodeIsInvalidGrant ==
    (/\ last.op = "token"
     /\ last.req.grant_type = "authorization_code"
     /\ last.redeemedBefore)
    => (last.status = 400 /\ last.error = "invalid_grant")

\* A redeemed code has been presented again by the client it was issued to,
\* with that client's own secret, and has been refused.
C1_Witness ==
    /\ last.op = "token"
    /\ last.redeemedBefore
    /\ last.req.client_id \in DOMAIN oauthClients
    /\ last.req.client_secret = oauthClients[last.req.client_id].client_secret
    /\ \E i \in DOMAIN tokenLog :
          /\ tokenLog[i].code = last.req.code
          /\ tokenLog[i].issued_to = last.req.client_id
    /\ last.status = 400
    /\ last.error = "invalid_grant"

\* C2: of the token requests for one code that are in flight together, at
\* most one obtains an access token, in whatever order they are dispatched.
C2_AtMostOneTokenPerCode ==
    \A i, j \in DOMAIN tokenLog :
        tokenLog[i].code = tokenLog[j].code => i = j

\* A request that arrived while its code was in the store, and carried the
\* right credentials, found the code redeemed by a request dispatched before
\* it.
C2_Witness ==
    /\ last.op = "token"
    /\ last.overlapped
    /\ last.req.code \in RedeemedCodes
    /\ last.req.client_id \in DOMAIN oauthClients
    /\ last.req.client_secret = oauthClients[last.req.client_id].client_secret
    /\ last.status = 400
    /\ last.error = "invalid_grant"

\* C3: an access token is issued for a code only to the client the code was
\* issued to at authorize time.
C3_TokenOnlyForCodeOwner ==
    \A i \in DOMAIN tokenLog : tokenLog[i].client_id = tokenLog[i].issued_to

\* The redirect_uris registered for a client, as a set.
RegisteredUris(clientId) ==
    {oauthClients[clientId].redirect_uris[i] :
        i \in DOMAIN oauthClients[clientId].redirect_uris}

\* C4: the authorization endpoint redirects, and stores a code, only for a
\* redirect_uri that equals one of the client's registered redirect_uris.
C4_RedirectUriIsRegistered ==
    /\ (last.op = "authorize" /\ last.status = 302)
          => last.location.uri \in RegisteredUris(last.req.client_id)
    /\ \A c \in DOMAIN authorizationCodes :
          authorizationCodes[c].redirect_uri
              \in RegisteredUris(authorizationCodes[c].client_id)

\* The fields of a registration record other than the secret.
PublicFields ==
    {"client_id", "client_name", "redirect_uris", "grant_types",
     "response_types", "scope", "token_endpoint_auth_method", "created_at"}

\* C5: client information holds exactly the public fields of the record,
\* never client_secret; an unknown client_id is answered 404; of all
\* responses only that of the registration call carries the secret.
C5_ClientInfoHidesSecret ==
    /\ (last.op = "clientinfo" /\ last.known)
          => /\ last.status = 200
             /\ DOMAIN last.body = PublicFields
             /\ \A k \in PublicFields :
                   last.body[k] = oauthClients[last.clientId][k]
    /\ (last.op = "clientinfo" /\ ~last.known) => last.status = 404
    /\ (last.op = "token" /\ last.status = 200)
          => "client_secret" \notin
                DOMAIN last.body
                \cup DOMAIN JsonParse(Base64UrlDecode(last.body.access_token[2]))
    /\ last.op = "register"
          => last.body.client_secret
                = oauthClients[last.body.client_id].client_secret

\* Client information has been served for a registered client.
C5_Witness ==
    /\ last.op = "clientinfo"
    /\ last.known
    /\ last.status = 200
    /\ last.body.client_id = last.clientId
    /\ "client_secret" \in DOMAIN oauthClients[last.clientId]

---------------------------------------------------------------------------
(* Properties of the authentication middleware *)

\* The request left the memory list and memories.json as they were.
MemoryUntouched ==
    memories = last.memoriesBefore /\ memoryFile = last.fileBefore

\* C6: with OAuth enabled, a bearer token that was signed with another
\* secret, or whose header or payload was changed after signing, or that
\* has not exactly three parts, is answered 401; the route handler does not
\* run and the memory list and file stay as they were.
C6_BadTokenRejected ==
    (/\ last.op \in ProtectedOps
     /\ OAUTH_ENABLED
     /\ last.kind \in BadKinds)
    => (last.status = 401 /\ ~last.ran /\ MemoryUntouched)

\* A store request carrying an issued token whose payload was changed after
\* signing has been refused.
C6_Witness ==
    /\ last.op = "store"
    /\ last.params[1] # << >>
    /\ OAUTH_ENABLED
    /\ last.kind = "payload changed"
    /\ Len(last.headers.authorization.cred) = 3
    /\ last.status = 401

\* C7: a token minted at clock second t (its iat) with a TTL of m minutes
\* is admitted at every time up to exp = t + 60 m seconds and refused with
\* 401 Token expired at every time after it.
C7_TokenValidUntilExp ==
    (last.op \in ProtectedOps /\ last.kind = "issued")
    => LET t == tokenLog[last.index].at \div 1000
           exp == t + 60 * OAUTH_ACCESS_TOKEN_EXPIRE_MINUTES
       IN  IF last.at <= exp * 1000
           THEN last.ran /\ last.authMethod = "oauth" /\ last.status = 200
           ELSE /\ ~last.ran
                /\ last.status = 401
                /\ last.error = "Token expired"

\* A token has been admitted at the last millisecond of its life.
C7_Witness ==
    /\ last.op \in ProtectedOps
    /\ last.kind = "issued"
    /\ last.at = ((tokenLog[last.index].at \div 1000)
                     + 60 * OAUTH_ACCESS_TOKEN_EXPIRE_MINUTES) * 1000
    /\ last.ran

\* C8: a request to a protected route without Authorization: Bearer and
\* without X-API-Key is answered 401 and leaves the memory list unchanged
\* when OAuth or API key authentication is enabled; it proceeds only when
\* neither is enabled.
C8_AnonymousNeedsNoAuthConfigured ==
    (last.op \in ProtectedOps /\ last.kind = "anonymous")
    => IF OAUTH_ENABLED \/ AUTH_ENABLED
       THEN last.status = 401 /\ ~last.ran /\ MemoryUntouched
       ELSE last.ran

\* With only OAuth enabled, a store request without credentials has been
\* refused.
C8_Witness ==
    /\ last.op = "store"
    /\ last.params[1] # << >>
    /\ last.kind = "anonymous"
    /\ OAUTH_ENABLED
    /\ ~AUTH_ENABLED
    /\ last.status = 401
    /\ memories = << >>

\* C9: with AUTH_ENABLED, every request the wrapper without OAuth admits
\* (the key in X-API-Key, or as Authorization: Bearer <key>) is admitted by
\* the OAuth wrapper under the same API key, OAuth enabled or not.
C9_LegacyKeyRequestsAdmitted ==
    (/\ last.op \in ProtectedOps
     /\ AUTH_ENABLED
     /\ legacyAuthenticate(AUTH_ENABLED, API_KEY, last.headers))
    => last.ran

\* The scope values of a space-delimited scope string.
ScopeValues(scope) ==
    CASE scope = "read" -> {"read"}
      [] scope = "write" -> {"write"}
      [] scope = "read write" -> {"read", "write"}
      [] scope = "admin" -> {"admin"}
      [] OTHER -> {}

\* The scope of the token a request was authenticated by.
TokenScope == IF "scope" \in DOMAIN last.user THEN last.user.scope ELSE ""

\* C10: a request authenticated by a token without the write scope does not
\* store or delete, and one without the read scope does not search or list.
C10_ScopeRestrictsRoutes ==
    (last.op \in ProtectedOps /\ last.ran /\ last.authMethod = "oauth")
    => /\ (last.op \in {"store", "delete"}
              /\ "write" \notin ScopeValues(TokenScope))
          => (last.status # 200 /\ MemoryUntouched)
       /\ (last.op \in {"search", "list"}
              /\ "read" \notin ScopeValues(TokenScope))
          => last.status # 200

---------------------------------------------------------------------------
(* SpecMemory: the memory routes with their file writes in flight, in     *)
(* either mode, no authentication configured                               *)

\* The child process prints 'Server started' before the 30 s timer fires
\* (lines 182-189): startMCPService resolves, fallbackMode stays false and
\* startServer() starts listening.
StartReady ==
    /\ ~listening
    /\ process = "running"
    /\ isReady' = TRUE
    /\ listening' = TRUE
    /\ UNCHANGED <<config, oauth, memory, disk, process, timer, clock, pending,
                   last>>

\* SIGTERM or SIGINT (lines 709-723): process.exit(0), and the supervisor
\* starts the add-on again.  Everything held in process memory is gone; the
\* writes still in flight are abandoned; memories.json stays as it is.
Restart ==
    /\ listening
    /\ Cardinality({i \in DOMAIN acked : acked[i].op = "restart"})
           < MaxRestarts
    /\ oauthClients' = << >>
    /\ authorizationCodes' = << >>
    /\ fallbackMode' = FALSE
    /\ memories' = << >>
    /\ listening' = FALSE
    /\ process' = "running"
    /\ isReady' = FALSE
    /\ timer' = "armed"
    /\ writes' = << >>
    /\ pending' = << >>
    /\ last' = [op |-> "restart", status |-> 0,
                quiescent |-> writes = << >>,
                fallback |-> fallbackMode,
                memoriesBefore |-> memories,
                fileBefore |-> memoryFile,
                at |-> now]
    /\ acked' = Append(acked, [op |-> "restart", id |-> 0,
                                overlapped |-> writes # << >>,
                                failed |-> FALSE])
    /\ UNCHANGED <<config, codesDrawn, tokenLog, authorizeLog, memoryFile,
                   clock>>

\* The response of a memory route: what was asked and what is answered.
Reply(op, params, status, error, body) ==
    [op |-> op, params |-> params, status |-> status, error |-> error,
     body |-> body]

\* A memory route handler from its first statement to its response or to
\* its await of fs.writeFile, whichever comes first.  storeMemory and
\* deleteMemory change this.memories and hand the new content to
\* fs.writeFile before they yield; the response is sent when the write has
\* completed.  status 0: no response yet.  overlapped: another handler's
\* write was in flight when this handler ran.
MemoryCall(op, headers, params, handled) ==
    /\ listening
    /\ LET a == Authenticated(headers)
       IN  IF ~a.admit
           THEN /\ last' = Reply(op, params, a.status, a.error, Undefined)
                /\ UNCHANGED <<memories, disk>>
           ELSE IF op \in {"store", "delete"} /\ handled.status = 200
           THEN /\ memories' = handled.memories
                /\ writes' = Append(writes,
                                    [data |-> handled.file,
                                     overlapped |-> writes # << >>,
                                     reply |-> Reply(op, params,
                                                     handled.status,
                                                     handled.error,
                                                     handled.body)])
                /\ acked' = acked
                /\ last' = Reply(op, params, 0, Undefined, Undefined)
           ELSE /\ last' = Reply(op, params, handled.status, handled.error,
                                 handled.body)
                /\ UNCHANGED <<memories, disk>>
    /\ UNCHANGED <<config, oauth, fallbackMode, memoryFile, listening, child, clock,
                   pending>>

\* The i-th write in flight completes and its handler resumes after the
\* await: the response is sent.  The writes are independent jobs of the
\* thread pool (open with truncation, write, close), so they complete in
\* any order, and while several are in flight their bytes can land over
\* each other (torn).
WriteLands(i, torn) ==
    /\ i \in DOMAIN writes
    /\ torn => Len(writes) > 1
    /\ memoryFile' = IF torn THEN TornFile ELSE writes[i].data
    /\ writes' = SubSeq(writes, 1, i - 1) \o SubSeq(writes, i + 1, Len(writes))
    /\ acked' = Append(acked,
                       [op |-> writes[i].reply.op,
                        id |-> IF writes[i].reply.op = "store"
                               THEN writes[i].reply.body.memory_id
                               ELSE writes[i].reply.params.id,
                        overlapped |-> writes[i].overlapped,
                        failed |-> FALSE])
    /\ last' = writes[i].reply
    /\ UNCHANGED <<config, oauth, fallbackMode, memories, listening, child, clock,
                   pending>>

\* A handler that answers 500 when its write has failed.
WriteFailureAnswered(reply) ==
    Reply(reply.op, reply.params, 500, "write failed", Undefined)

\* The catch of saveFallbackMemories (lines 231-233) logs the error and
\* returns: the handler resumes as after a completed write and sends the
\* response it would have sent.
WriteFailureSwallowed(reply) == reply

\* fs.writeFile of the i-th write in flight rejects (no space, no
\* permission, ...).  The file is as it was if it could not be opened, and
\* holds a truncated content that does not parse if the write broke off
\* after the open.
WriteFails(i, truncated) ==
    /\ i \in DOMAIN writes
    /\ memoryFile' = IF truncated THEN TornFile ELSE memoryFile
    /\ writes' = SubSeq(writes, 1, i - 1) \o SubSeq(writes, i + 1, Len(writes))
    /\ acked' = Append(acked,
                       [op |-> writes[i].reply.op,
                        id |-> IF writes[i].reply.op = "store"
                               THEN writes[i].reply.body.memory_id
                               ELSE writes[i].reply.params.id,
                        overlapped |-> writes[i].overlapped,
                        failed |-> TRUE])
    /\ last' = WriteFailureSwallowed(writes[i].reply)
    /\ UNCHANGED <<config, oauth, fallbackMode, memories, listening, child, clock,
                   pending>>

Anonymous == Headers(NoAuthorization, Undefined)

InitMemory == InitWith(FALSE, FALSE, Undefined)

MemoryContents == {MissingContent, << >>, <<"a", "B">>, <<"a">>}
MemoryQueries == {<<"A">>}
SearchLimits == {1, 10}
ListWindows == {<<50, 0>>, <<1, 1>>}
\* An id that no record has.
UnknownId == 0 - 1

\* Stores that have changed the list so far.
StoresRun ==
    Cardinality({i \in DOMAIN acked : acked[i].op = "store"})
    + Cardinality({i \in DOMAIN writes : writes[i].reply.op = "store"})

StoreCall ==
    \E content \in MemoryContents :
        LET handled == storeRoute(fallbackMode, memories, memoryFile, now,
                                  content, << >>)
        IN  /\ handled.status = 200 => StoresRun < MaxMemories
            /\ MemoryCall("store", Anonymous,
                          [content |-> content, tags |-> << >>], handled)

SearchCall ==
    \E query \in MemoryQueries, limit \in SearchLimits :
        MemoryCall("search", Anonymous,
                   [query |-> query, tags |-> << >>, limit |-> limit],
                   searchRoute(fallbackMode, memories, memoryFile, query,
                               << >>, limit))

ListCall ==
    \E w \in ListWindows :
        MemoryCall("list", Anonymous, [limit |-> w[1], offset |-> w[2]],
                   listRoute(fallbackMode, memories, memoryFile, w[1], w[2]))

DeleteCall ==
    \E id \in StoredIds \cup {UnknownId} :
        MemoryCall("delete", Anonymous, [id |-> id],
                   deleteRoute(fallbackMode, memories, memoryFile, id))

WriteDone == \E i \in DOMAIN writes, torn \in BOOLEAN : WriteLands(i, torn)

MemoryClock == Tick(1)

NextMemory ==
    \/ StartTimeout
    \/ StartReady
    \/ MemoryClock
    \/ StoreCall
    \/ SearchCall
    \/ ListCall
    \/ DeleteCall
    \/ WriteDone

SpecMemory == InitMemory /\ [][NextMemory]_vars

---------------------------------------------------------------------------
(* SpecRestart: stores and deletes with their file writes in flight, and  *)
(* the service restarting in fallback mode, at one reading of the clock    *)

NextRestart ==
    \/ StartTimeout
    \/ Restart
    \/ StoreCall
    \/ DeleteCall
    \/ WriteDone

SpecRestart == InitMemory /\ [][NextRestart]_vars

---------------------------------------------------------------------------
(* SpecOverlap: stores and deletes in fallback mode with their file       *)
(* writes in flight, at one reading of the clock                           *)

NextOverlap ==
    \/ StartTimeout
    \/ StoreCall
    \/ DeleteCall
    \/ WriteDone

SpecOverlap == InitMemory /\ [][NextOverlap]_vars

---------------------------------------------------------------------------
(* SpecWriteError: stores and deletes in fallback mode on a disk whose     *)
(* writes can fail                                                         *)

ErrorContents == {<<"a">>}

ErrorStore ==
    \E content \in ErrorContents :
        LET handled == storeRoute(fallbackMode, memories, memoryFile, now,
                                  content, << >>)
        IN  /\ handled.status = 200 => StoresRun < MaxMemories
            /\ MemoryCall("store", Anonymous,
                          [content |-> content, tags |-> << >>], handled)

ErrorDelete ==
    \E id \in StoredIds :
        MemoryCall("delete", Anonymous, [id |-> id],
                   deleteRoute(fallbackMode, memories, memoryFile, id))

WriteCompletes == \E i \in DOMAIN writes : WriteLands(i, FALSE)

WriteError ==
    \E i \in DOMAIN writes, truncated \in BOOLEAN : WriteFails(i, truncated)

NextWriteError ==
    \/ StartTimeout
    \/ ErrorStore
    \/ ErrorDelete
    \/ WriteCompletes
    \/ WriteError

SpecWriteError == InitMemory /\ [][NextWriteError]_vars

---------------------------------------------------------------------------
(* SpecStartup: start() against a child process that announces itself,     *)
(* stays silent or exits, and the 30 s timer                               *)

\* The child prints 'Server started' (lines 182-189) when start() has
\* already ended: isReady is set, and resolve() of the settled promise does
\* nothing.
ChildAnnounces ==
    /\ listening
    /\ process = "running"
    /\ ~isReady
    /\ isReady' = TRUE
    /\ UNCHANGED <<config, oauth, memory, disk, listening, process, timer,
                   clock, pending, last>>

\* The child process exits: the 'close' handler (lines 195-198) clears
\* isReady and does nothing else.
ChildCloses ==
    /\ process = "running"
    /\ process' = "exited"
    /\ isReady' = FALSE
    /\ UNCHANGED <<config, oauth, memory, disk, listening, timer, clock,
                   pending, last>>

\* The 30 s timer fires (lines 201-205) when isReady is set, or when
\* start() has ended and reject() of the settled promise does nothing.
TimerExpires ==
    /\ timer = "armed"
    /\ isReady \/ listening
    /\ timer' = "fired"
    /\ UNCHANGED <<config, oauth, memory, disk, listening, process, isReady,
                   clock, pending, last>>

\* spawn cannot start python3 (it is not installed, or /app is missing):
\* the ChildProcess emits 'error' on the next tick.  startMCPService
\* registers listeners for 'data' and 'close' only (lines 182-198), so the
\* event is thrown as an uncaught exception and the wrapper process exits,
\* its timer with it, before start() has ended.
SpawnFails ==
    /\ ~listening
    /\ process = "running"
    /\ timer = "armed"
    /\ process' = "failed"
    /\ timer' = "gone"
    /\ UNCHANGED <<config, oauth, memory, disk, listening, isReady, clock,
                   pending, last>>

NextStartup ==
    \/ SpawnFails
    \/ StartReady
    \/ StartTimeout
    \/ ChildAnnounces
    \/ ChildCloses
    \/ TimerExpires
    \/ Restart
    \/ ErrorStore
    \/ WriteCompletes

SpecStartup == InitMemory /\ [][NextStartup]_vars

\* The event loop runs the callback of setTimeout (line 201) 30 s after
\* startMCPService has set it, whatever the child process does.
SpecStartupFair == SpecStartup /\ WF_vars(StartTimeout)

---------------------------------------------------------------------------
(* SpecCodes: the life of an authorization code as the clock advances:    *)
(* one client registers, asks for codes inside and outside its registered  *)
(* scope, and the codes are presented with right and wrong credentials,    *)
(* in time and late, between requests to the other routes                  *)

\* GET /.well-known/oauth-authorization-server/mcp (lines 382-395).
Discovery ==
    /\ listening /\ OAUTH_ENABLED
    /\ last' = [op |-> "discovery", status |-> 200,
                body |-> [scopes_supported |-> <<"read", "write", "admin">>,
                          response_types_supported |-> <<"code">>,
                          grant_types_supported |->
                              <<"authorization_code", "client_credentials">>]]
    /\ UNCHANGED <<config, oauth, memory, disk, listening, child, clock, pending>>

RequestedScopes == {"read", "admin"}

AuthorizeScoped ==
    \E c \in DOMAIN oauthClients \cup {UnknownClient},
       sc \in RequestedScopes :
        Authorize(c, "code", UriA, sc, "xyz")

CodeClock == \E d \in {1, CodeTtlMs} : Tick(d)

InfoAny ==
    \E c \in IssuedCredentials \cup {Sending("anonymous", 0, Anonymous)} :
        Info(c.headers, c)

NextCodes ==
    \/ StartTimeout
    \/ OneRegister
    \/ Discovery
    \/ AuthorizeScoped
    \/ TokenReq
    \/ ClientInfoReq
    \/ CodeClock
    \/ InfoAny

SpecCodes == Init /\ [][NextCodes]_vars

---------------------------------------------------------------------------
(* SpecFrame: several authorization flows of one client side by side,     *)
(* some redeemed, some left to expire, between requests to every other     *)
(* route                                                                   *)

FrameAuthorize ==
    \E c \in DOMAIN oauthClients \cup {UnknownClient} :
        AuthorizeWithin(MaxFlows, c, "code", UriA, "read", "xyz")

\* The clock moves past the deadline of every code issued so far.
FrameClock == Tick(CodeTtlMs + 1)

NextFrame ==
    \/ StartTimeout
    \/ OneRegister
    \/ Discovery
    \/ FrameAuthorize
    \/ TokenReq
    \/ ClientInfoReq
    \/ FrameClock
    \/ InfoAny
    \/ ListWithToken

SpecFrame == Init /\ [][NextFrame]_vars

---------------------------------------------------------------------------
(* SpecRegistry: registrations with the same name twice, without a name   *)
(* and without redirect URIs, between requests to the other routes of the  *)
(* authorization server                                                    *)

RegistryNames == {"Test", Undefined}
RegistryUriLists == {<<UriA>>, << >>}

RegistryRegister ==
    \E n \in RegistryNames, u \in RegistryUriLists :
        Register(n, u, "read write")

RegistryAuthorize ==
    \E c \in DOMAIN oauthClients : Authorize(c, "code", UriA, "read", "xyz")

NextRegistry ==
    \/ StartTimeout
    \/ RegistryRegister
    \/ Discovery
    \/ RegistryAuthorize
    \/ FlowToken
    \/ ClientInfoReq

SpecRegistry == Init /\ [][NextRegistry]_vars

---------------------------------------------------------------------------
(* SpecQuery: search and list in fallback mode over records with and      *)
(* without tags, stored in the same and in different milliseconds, with    *)
(* every kind of limit and offset a query string can carry                 *)

\* What store requests carry: a content and its tags.
QueryRecords == {<<<<"a", "B">>, <<"t">>>>, <<<<"c">>, << >>>>}
\* No query parameter (or an empty one), and two search terms.
QueryTerms == {<< >>, <<"A">>, <<"b">>}
QueryTagFilters == {<< >>, <<"u", "t">>}
\* parseInt(limit): below zero, zero, and above zero.
QueryLimits == {0 - 1, 0, 1, 10}
QueryOffsets == {0 - 2, 0, 1}
ListLimits == {1, 50}

QueryStore ==
    \E r \in QueryRecords :
        StoreMemory(Anonymous, Sending("anonymous", 0, Anonymous), r[1], r[2])

QuerySearch ==
    \E query \in QueryTerms, tags \in QueryTagFilters, limit \in QueryLimits :
        SearchMemories(Anonymous, Sending("anonymous", 0, Anonymous), query,
                       tags, limit)

QueryList ==
    \E limit \in ListLimits, offset \in QueryOffsets :
        ListMemories(Anonymous, Sending("anonymous", 0, Anonymous), limit,
                     offset)

QueryClock == Tick(1)

NextQuery ==
    \/ StartTimeout
    \/ QueryStore
    \/ QueryClock
    \/ QuerySearch
    \/ QueryList

SpecQuery == InitMemory /\ [][NextQuery]_vars

---------------------------------------------------------------------------
(* SpecCodec: SimpleJWT on its own: payloads of the shape the token       *)
(* endpoint builds are encoded under a secret and the token is decoded     *)
(* under the same or another secret                                        *)

\* Payloads of the shape of lines 516-522; scope is undefined when the
\* authorize request had no scope parameter.
CodecPayloads ==
    {[client_id |-> c, scope |-> sc, iat |-> t, exp |-> t + TokenTtlSec,
      sub |-> c] :
        c \in {ClientIdOf(1), ClientIdOf(2)},
        sc \in {Undefined, "read", "read write"},
        t \in {0, 1, 2}}

CodecSecrets == {OAUTH_SECRET_KEY, OtherSecret}

InitCodec ==
    /\ OAUTH_ENABLED = TRUE
    /\ AUTH_ENABLED = FALSE
    /\ API_KEY = Undefined
    /\ oauthClients = << >>
    /\ authorizationCodes = << >>
    /\ fallbackMode = FALSE
    /\ memories = << >>
    /\ memoryFile = NoFile
    /\ listening = FALSE
    /\ process = "running"
    /\ isReady = FALSE
    /\ timer = "armed"
    /\ now = 0
    /\ ticks = 0
    /\ codesDrawn = 0
    /\ tokenLog = << >>
    /\ authorizeLog = << >>
    /\ writes = << >>
    /\ acked = << >>
    /\ pending = << >>
    /\ \E p \in CodecPayloads, secret \in CodecSecrets :
          last = [op |-> "codec", stage |-> "payload", payload |-> p,
                  secret |-> secret]

\* new SimpleJWT(secret).encode(payload)
CodecEncode ==
    /\ last.op = "codec" /\ last.stage = "payload"
    /\ last' = [op |-> "codec", stage |-> "encoded",
                payload |-> last.payload, secret |-> last.secret,
                token |-> encode(last.payload, last.secret)]
    /\ UNCHANGED <<config, oauth, memory, disk, listening, child, clock, pending>>

\* new SimpleJWT(secret).decode(token)
CodecDecode(secret) ==
    /\ last.op = "codec" /\ last.stage = "encoded"
    /\ last' = [op |-> "codec", stage |-> "decoded",
                payload |-> last.payload, secret |-> last.secret,
                token |-> last.token, with |-> secret,
                result |-> decode(last.token, secret)]
    /\ UNCHANGED <<config, oauth, memory, disk, listening, child, clock, pending>>

CodecDecodes == \E secret \in CodecSecrets : CodecDecode(secret)

NextCodec ==
    \/ CodecEncode
    \/ CodecDecodes

SpecCodec == InitCodec /\ [][NextCodec]_vars

---------------------------------------------------------------------------
(* Properties of the error responses and of the issued token *)

\* The error codes of the OAuth endpoints that the interface names.
StandardCodes ==
    {"invalid_client", "invalid_grant", "unsupported_grant_type",
     "unsupported_response_type"}

\* C18: every failing request to /oauth/authorize or /oauth/token is
\* answered with a 4xx status and an error that is one of the standard
\* short codes, never a prose message.
C18_OAuthErrorsAreStandardCodes ==
    (last.op \in {"authorize", "token"} /\ last.status \notin {200, 302})
    => (/\ last.status \in 400..499
        /\ last.error \in StandardCodes)

\* C19: a successful token exchange returns token_type Bearer, expires_in
\* = 60 * the access-token TTL in minutes, the scope of the authorize
\* request that issued the code, and an access token of three segments
\* whose claims have client_id = sub = the exchanging client and
\* exp - iat = expires_in.
C19_TokenResponseShape ==
    (last.op = "token" /\ last.status = 200)
    => (/\ last.body.token_type = "Bearer"
        /\ last.body.expires_in = OAUTH_ACCESS_TOKEN_EXPIRE_MINUTES * 60
        /\ last.body.scope = authorizeLog[last.req.code].scope
        /\ Len(last.body.access_token) = 3
        /\ LET claims == PayloadOf(last.body.access_token)
           IN  /\ claims.client_id = last.req.client_id
               /\ claims.sub = last.req.client_id
               /\ claims.scope = authorizeLog[last.req.code].scope
               /\ claims.exp - claims.iat = last.body.expires_in)

\* A code issued for scope "write" has been exchanged after the clock has
\* moved on from the start, so that iat is not 0.
C19_Witness ==
    /\ last.op = "token"
    /\ last.status = 200
    /\ authorizeLog[last.req.code].scope = "write"
    /\ PayloadOf(last.body.access_token).iat > 0
    /\ last.body.expires_in = 3600

\* C20: an authorize request with a response_type other than code is
\* answered 400 unsupported_response_type, also when its client_id is not
\* registered; one with response_type code and a client_id that was never
\* registered is answered 400 invalid_client; neither changes the code
\* store or the client registry.
C20_RefusedAuthorizeIssuesNoCode ==
    [][(/\ last'.op = "authorize"
        /\ \/ last'.req.response_type # "code"
           \/ last'.req.client_id \notin DOMAIN oauthClients)
       => (/\ last'.status = 400
           /\ last'.error = IF last'.req.response_type # "code"
                            THEN "unsupported_response_type"
                            ELSE "invalid_client"
           /\ UNCHANGED <<authorizationCodes, oauthClients, codesDrawn>>)]_vars

\* A request for the implicit flow from a client that was never registered
\* has been refused for its response_type while a code is in the store.
C20_Witness ==
    /\ last.op = "authorize"
    /\ last.req.response_type = "token"
    /\ last.req.client_id \notin DOMAIN oauthClients
    /\ last.error = "unsupported_response_type"
    /\ DOMAIN authorizationCodes # {}

---------------------------------------------------------------------------
(* Properties of the memory routes *)

Ids(mems) == {mems[i].id : i \in DOMAIN mems}
Records(mems) == {mems[i] : i \in DOMAIN mems}

\* C11: POST /memory/store with missing or empty content is answered 400
\* and creates no record: the memory list and memories.json are as before
\* the request.
C11_EmptyContentIs400 ==
    [][(/\ last' # last
        /\ last'.op = "store"
        /\ NoContent(last'.params.content))
       => (/\ last'.status = 400
           /\ UNCHANGED <<memories, memoryFile>>)]_vars

\* C12: in fallback mode, DELETE /memory/{id} for an id that is not in the
\* memory list is answered 404 and leaves the list and memories.json unchanged; for an id
\* in the list the handler removes one record with that id and the answer,
\* when the write has completed, is {success}.
C12_DeleteUnknownIs404 ==
    [][(fallbackMode /\ last' # last /\ last'.op = "delete")
       => (/\ (writes' = writes /\ last'.params.id \notin Ids(memories))
              => (/\ last'.status = 404
                  /\ UNCHANGED <<memories, memoryFile>>)
           /\ (Len(writes') >= Len(writes)
               /\ last'.params.id \in Ids(memories))
              => (/\ Len(writes') > Len(writes)
                  /\ Len(memories') = Len(memories) - 1
                  /\ Records(memories') \subseteq Records(memories))
           /\ Len(writes') < Len(writes)
              => (last'.status = 200 /\ last'.body.success))]_vars

\* C13: after a successful delete(id), every following list contains no
\* record with that id.
C13_DeletedIdNeverListed ==
    (last.op = "list" /\ last.status = 200)
    => \A i \in DOMAIN acked :
          acked[i].op = "delete"
          => acked[i].id \notin Ids(last.body.memories)

\* C14: a search that immediately follows a successful store, has no tag
\* filter and a positive limit, and whose query is a substring of the
\* stored content in any letter case, returns the stored record.
C14_StoreThenSearchFindsIt ==
    [][(/\ last.op = "store"
        /\ last.status = 200
        /\ last'.op = "search"
        /\ last'.status = 200
        /\ last'.params.tags = << >>
        /\ last'.params.limit > 0
        /\ includes(toLowerCase(last.body.memory.content),
                    toLowerCase(last'.params.query)))
       => last.body.memory \in Records(last'.body.memories)]_vars

\* C15: after store and delete operations that have all completed, a
\* restart that loads memories.json in fallback mode yields the memory
\* list the service held before the restart.
C15_MemoriesSurviveRestart ==
    (/\ last.op = "restart"
     /\ last.quiescent
     /\ last.fallback
     /\ listening
     /\ fallbackMode)
    => memories = last.memoriesBefore

\* C16: the list and the persisted file differ, once every write has
\* completed, only through handlers whose writes overlapped: some store or
\* delete ran while another handler's write was in flight.  Two
\* overlapping stores can so both answer success and both be in the list
\* while the file lacks one of the records (C16_Witness).
C16_FileLagsOnlyAfterOverlap ==
    (/\ listening
     /\ fallbackMode
     /\ writes = << >>
     /\ loadFallbackMemories(memoryFile) # memories)
    => \E i \in DOMAIN acked : acked[i].overlapped

\* Two stores have both answered success, the list holds both records,
\* no write is in flight, and the file parses and lacks one of them.
C16_Witness ==
    /\ writes = << >>
    /\ Cardinality({i \in DOMAIN acked : acked[i].op = "store"}) = 2
    /\ Len(memories) = 2
    /\ memories[1] # memories[2]
    /\ memoryFile.parses
    /\ Len(memoryFile.data) = 1
    /\ \E i \in DOMAIN memories :
          memories[i] \notin Records(memoryFile.data)

\* C17: once startup has completed, in either mode, store (with content),
\* search and list succeed, and delete fails only for an id that is not in
\* the list.
C17_AlwaysFunctional ==
    (/\ listening
     /\ last.op \in {"store", "search", "list", "delete"}
     /\ last.status # 0
     /\ last.op = "store" => ~NoContent(last.params.content)
     /\ last.op = "delete" => last.error # "Memory not found")
    => last.status = 200

---------------------------------------------------------------------------
(* Properties of the token codec *)

\* The claims of a payload that hold a value: what JSON can carry.
DefinedClaims(payload) ==
    [k \in {f \in DOMAIN payload :
                f \in OptionalKeys => payload[f] # Undefined} |-> payload[k]]

---------------------------------------------------------------------------
(* Properties of the authorization code store *)

\* The form body with which the client a code was issued to presents it.
OwnerBody(code) ==
    LET owner == authorizationCodes[code].client_id
    IN  [grant_type |-> "authorization_code", code |-> code,
         client_id |-> owner,
         client_secret |-> oauthClients[owner].client_secret]

TokenStep == listening /\ now' = now /\ last'.op = "token"

\* C23: a code issued at time t is stored with expires_at = t + the code
\* lifetime (10 minutes); a token request that presents a stored code at a
\* time after expires_at is answered invalid_grant and the entry is
\* deleted; one at a time up to and including expires_at is not answered
\* invalid_grant, and the entry stays unless the exchange succeeds.
C23_CodeExpiresAfterTtl ==
    /\ CodeTtlMs = 10 * 60 * 1000
    /\ [](\A c \in DOMAIN authorizationCodes :
             authorizationCodes[c].expires_at = authorizeLog[c].at + CodeTtlMs)
    /\ [][(/\ TokenStep
           /\ last'.req.grant_type = "authorization_code"
           /\ last'.req.code \in DOMAIN authorizationCodes)
          => LET c == last'.req.code
                 deadline == authorizeLog[c].at + CodeTtlMs
             IN  IF now > deadline
                 THEN /\ last'.status = 400
                      /\ last'.error = "invalid_grant"
                      /\ authorizationCodes' = MapDelete(authorizationCodes, c)
                 ELSE /\ last'.error # "invalid_grant"
                      /\ last'.status # 200
                         => authorizationCodes' = authorizationCodes]_vars

\* A code has been presented with the right credentials one millisecond
\* after its deadline: it was refused and is gone from the store.
C23_Witness ==
    /\ last.op = "token"
    /\ last.error = "invalid_grant"
    /\ last.req.code \in DOMAIN authorizeLog
    /\ ~last.redeemedBefore
    /\ last.req.client_id \in DOMAIN oauthClients
    /\ last.req.client_secret = oauthClients[last.req.client_id].client_secret
    /\ last.at = authorizeLog[last.req.code].at + CodeTtlMs + 1
    /\ last.req.code \notin DOMAIN authorizationCodes

\* A step in which some route has answered a request.
RequestStep == listening /\ now' = now

\* C24: an entry of the code store is removed or changed only by a token
\* request that presents that code and either succeeds or finds it expired;
\* register, client info, discovery, the memory routes, authorize and a
\* token request refused for unsupported_grant_type leave every existing
\* entry as it was.
C24_CodeRemovedOnlyByExchangeOrExpiry ==
    [][/\ \A c \in DOMAIN authorizationCodes :
             (\/ c \notin DOMAIN authorizationCodes'
              \/ authorizationCodes'[c] # authorizationCodes[c])
             => (/\ TokenStep
                 /\ last'.req.code = c
                 /\ last'.req.grant_type = "authorization_code"
                 /\ \/ last'.status = 200
                    \/ /\ last'.error = "invalid_grant"
                       /\ now > authorizationCodes[c].expires_at)
       /\ (/\ RequestStep
           /\ \/ last'.op \in {"register", "clientinfo", "discovery",
                               "authorize", "info", "list"}
              \/ /\ last'.op = "token"
                 /\ last'.error = "unsupported_grant_type")
          => \A c \in DOMAIN authorizationCodes :
                /\ c \in DOMAIN authorizationCodes'
                /\ authorizationCodes'[c] = authorizationCodes[c]]_vars

\* A second flow has been given its code while the code of the first is
\* still in the store.
C24_Witness ==
    /\ last.op = "authorize"
    /\ last.status = 302
    /\ Cardinality(DOMAIN authorizationCodes) = 2
    /\ \E c \in DOMAIN authorizationCodes : c # last.location.code

---------------------------------------------------------------------------
(* Properties of the client registry *)

\* C25: every register request is answered with the new record and adds
\* exactly that record, under a client_id no record had before, whatever
\* its name and redirect URIs; no step of any route changes or removes a
\* record, so a client's client_id and client_secret stay as registered.
C25_RegistryIsAppendOnly ==
    [][/\ \A c \in DOMAIN oauthClients :
             /\ c \in DOMAIN oauthClients'
             /\ oauthClients'[c] = oauthClients[c]
             /\ oauthClients'[c].client_id = c
       /\ (RequestStep /\ last'.op = "register")
          => (/\ last'.status = 200
              /\ last'.body.client_id \notin DOMAIN oauthClients
              /\ DOMAIN oauthClients' =
                     DOMAIN oauthClients \cup {last'.body.client_id}
              /\ oauthClients'[last'.body.client_id] = last'.body)
       /\ ~(RequestStep /\ last'.op = "register")
          => DOMAIN oauthClients' = DOMAIN oauthClients]_vars

\* A second client has registered under the name of the first and without
\* redirect URIs, and both records are in the registry.
C25_Witness ==
    /\ last.op = "register"
    /\ last.body.redirect_uris = << >>
    /\ Cardinality(DOMAIN oauthClients) = 2
    /\ \E c \in DOMAIN oauthClients :
          /\ c # last.body.client_id
          /\ oauthClients[c].client_name = last.body.client_name
          /\ oauthClients[c].client_secret # last.body.client_secret

---------------------------------------------------------------------------
(* Properties of the authorization flow *)

\* C26: every access token issued was exchanged for a code that authorize
\* had issued, to a client that register had created, no later than the
\* exchange and no earlier than the registration; the exchange itself
\* found the code in the store and the exchanging client in the registry;
\* a token request with a code that authorize never issued is answered
\* 400 invalid_grant.
C26_TokenOnlyAfterRegisterAndAuthorize ==
    /\ [](\A i \in DOMAIN tokenLog :
             LET t == tokenLog[i]
             IN  /\ t.code \in DOMAIN authorizeLog
                 /\ authorizeLog[t.code].client_id \in DOMAIN oauthClients
                 /\ t.client_id \in DOMAIN oauthClients
                 /\ oauthClients[authorizeLog[t.code].client_id].created_at
                        <= authorizeLog[t.code].at
                 /\ authorizeLog[t.code].at <= t.at)
    /\ [][TokenStep
          => (/\ last'.status = 200
                 => (/\ last'.req.code \in DOMAIN authorizationCodes
                     /\ last'.req.code \in DOMAIN authorizeLog
                     /\ last'.req.client_id \in DOMAIN oauthClients
                     /\ Len(tokenLog') = Len(tokenLog) + 1)
              /\ last'.status # 200 => tokenLog' = tokenLog
              /\ (/\ last'.req.grant_type = "authorization_code"
                  /\ last'.req.code \notin DOMAIN authorizeLog)
                 => (last'.status = 400 /\ last'.error = "invalid_grant"))]_vars

\* A registered client has presented, with its own secret, a code that
\* authorize never issued, while a code it was issued is in the store: the
\* request was refused and no token has been issued.
C26_Witness ==
    /\ last.op = "token"
    /\ last.req.grant_type = "authorization_code"
    /\ last.req.code \notin DOMAIN authorizeLog
    /\ last.req.client_id \in DOMAIN oauthClients
    /\ last.req.client_secret = oauthClients[last.req.client_id].client_secret
    /\ last.error = "invalid_grant"
    /\ DOMAIN authorizationCodes # {}
    /\ tokenLog = << >>

---------------------------------------------------------------------------
(* Properties of the order of the middleware's checks *)

\* The bearer credential of the last request decodes under the server's
\* secret and had not expired when the request was made.
LastBearerValid ==
    LET d == decode(last.headers.authorization.cred, OAUTH_SECRET_KEY)
    IN  d.ok /\ ~Expired(d.payload, last.at)

C28_ApiKeyMustMatchExactly ==
    (/\ last.op \in ProtectedOps
     /\ AUTH_ENABLED
     /\ last.headers.authorization.scheme # "Bearer"
     /\ last.headers.xApiKey # Undefined)
    => (/\ last.ran <=> last.headers.xApiKey = API_KEY
        /\ last.ran => last.authMethod = "api_key"
        /\ ~last.ran => (last.status = 401 /\ MemoryUntouched))

\* With both methods enabled, a delete request for a stored memory sent
\* with a wrong X-API-Key has been refused and the memory is still listed.
C28_Witness ==
    /\ last.op = "delete"
    /\ AUTH_ENABLED
    /\ OAUTH_ENABLED
    /\ last.headers.authorization.scheme = "none"
    /\ last.headers.xApiKey = WrongKey
    /\ last.status = 401
    /\ last.params[1] \in Ids(memories)

\* C30: the scope of every code in the store is within the scope its
\* client registered with, and the scope carried by every access token
\* issued is within the scope registered for the client that exchanged
\* the code.
C30_GrantedScopeWithinRegistered ==
    /\ \A c \in DOMAIN authorizationCodes :
          ScopeValues(authorizationCodes[c].scope) \subseteq
              ScopeValues(oauthClients[authorizationCodes[c].client_id].scope)
    /\ \A i \in DOMAIN tokenLog :
          ScopeValues(PayloadOf(tokenLog[i].access_token).scope) \subseteq
              ScopeValues(oauthClients[tokenLog[i].client_id].scope)

---------------------------------------------------------------------------
(* Properties of search and list *)

\* content contains query, letter case aside.
ContainsIgnoringCase(content, query) ==
    \E i \in 0..(Len(content) - Len(query)) :
        \A k \in 1..Len(query) :
            LowerChar(content[i + k]) = LowerChar(query[k])

\* The record is one a search for query and tags asks for.
Wanted(m, query, tags) ==
    /\ query = << >> \/ ContainsIgnoringCase(m.content, query)
    /\ tags = << >>
       \/ \E i \in DOMAIN tags : \E j \in DOMAIN m.tags : m.tags[j] = tags[i]

\* How often the record r occurs in the list.
Occurrences(mems, r) == Cardinality({i \in DOMAIN mems : mems[i] = r})

NewestFirst(mems) ==
    \A i, j \in DOMAIN mems :
        i < j => mems[i].created_at >= mems[j].created_at

\* C31: in fallback mode a search returns wanted records only, each no
\* more often than it is stored, newest first, the newest min(limit,
\* number wanted) of them, never more than limit (none for a limit below
\* zero), and total is the number returned.
C31_SearchReturnsNewestMatches ==
    (/\ last.op = "search"
     /\ last.ran
     /\ fallbackMode)
    => LET mems == last.memoriesBefore
           query == last.params[1]
           tags == last.params[2]
           limit == last.params[3]
           wanted == {i \in DOMAIN mems : Wanted(mems[i], query, tags)}
       IN  /\ last.status = 200
           /\ LET res == last.body.memories
              IN  /\ \A j \in DOMAIN res :
                        /\ Wanted(res[j], query, tags)
                        /\ Occurrences(res, res[j]) <= Occurrences(mems, res[j])
                  /\ NewestFirst(res)
                  /\ \A i \in wanted :
                        Occurrences(res, mems[i]) < Occurrences(mems, mems[i])
                        => \A j \in DOMAIN res :
                              res[j].created_at >= mems[i].created_at
                  /\ Len(res) = Min(Max(limit, 0), Cardinality(wanted))
                  /\ Len(res) <= Max(limit, 0)
                  /\ last.body.total = Len(res)

\* The newest-first ordering of a list: the rearrangement in which a newer
\* record comes before an older one and records of the same millisecond
\* keep the order they were stored in.
NewestFirstOrdering(mems) ==
    LET n == Len(mems)
        order == CHOOSE f \in [1..n -> 1..n] :
                    /\ \A i, j \in 1..n : i # j => f[i] # f[j]
                    /\ \A i, j \in 1..n :
                          i < j =>
                             \/ mems[f[i]].created_at > mems[f[j]].created_at
                             \/ /\ mems[f[i]].created_at = mems[f[j]].created_at
                                /\ f[i] < f[j]
    IN  [i \in 1..n |-> mems[order[i]]]

\* The records at the 0-based positions from..to of a list, as far as the
\* list has them.
Positions(arr, from, to) ==
    SubSeq(arr, Max(from, 0) + 1, Min(to + 1, Len(arr)))

\* The pages at offsets 0, limit, 2 limit, ... of a list of n records, one
\* after the other.
RECURSIVE PagesFrom(_, _, _)
PagesFrom(mems, limit, offset) ==
    IF offset >= Len(mems) THEN << >>
    ELSE listMemories(mems, limit, offset).memories
             \o PagesFrom(mems, limit, offset + limit)

\* C32: in fallback mode list(limit, offset) returns the records at
\* positions offset to offset+limit-1 of the newest-first ordering with
\* total the number of stored records, and the pages at offsets 0, limit,
\* 2 limit, ... of an unchanged list hold every stored record exactly once.
C32_ListPagesPartitionTheList ==
    (/\ last.op = "list"
     /\ last.ran
     /\ fallbackMode)
    => LET mems == last.memoriesBefore
           limit == last.params[1]
           offset == last.params[2]
       IN  /\ last.status = 200
           /\ last.body.memories =
                  Positions(NewestFirstOrdering(mems), offset,
                            offset + limit - 1)
           /\ last.body.total = Len(mems)
           /\ mems = memories
              => LET pages == PagesFrom(memories, limit, 0)
                 IN  /\ Len(pages) = Len(memories)
                     /\ \A i \in DOMAIN memories :
                           Occurrences(pages, memories[i])
                               = Occurrences(memories, memories[i])

\* C33: the id of a stored record is the millisecond the store ran in,
\* whether or not a record of the list has that id already: the record is
\* appended, so a second store in the same millisecond leaves two records
\* with one id.
C33_IdIsTheMillisecond ==
    (last.op = "store" /\ last.ran /\ last.status = 200)
    => LET m == last.body.memory
           before == last.memoriesBefore
       IN  /\ m.id = last.at
           /\ last.body.memory_id = m.id
           /\ memories = Append(before, m)
           /\ (\E i \in DOMAIN before : before[i].id = last.at)
              => Cardinality({i \in DOMAIN memories :
                                 memories[i].id = m.id}) >= 2

\* Two records with different contents, stored one after the other in the
\* same millisecond, are in the list under one id.
C33_Witness ==
    /\ last.op = "store"
    /\ Len(memories) = 2
    /\ memories[1].id = memories[2].id
    /\ memories[1].content # memories[2].content

---------------------------------------------------------------------------
(* The test server against the OAuth wrapper *)

\* C34: with OAuth enabled and in fallback mode, every request to store,
\* search, list or delete is answered by the wrapper with the status, the
\* error and the body with which the test server answers it from the same
\* memory list at the same clock reading, and leaves the same list.
C34_TestServerAnswersAlike ==
    (/\ last.op \in {"store", "search", "list", "delete"}
     /\ OAUTH_ENABLED
     /\ fallbackMode)
    => LET t == testServer(last.op, last.headers, last.params,
                           last.memoriesBefore, last.at)
       IN  /\ last.status = t.status
           /\ last.error = t.error
           /\ last.body = t.body
           /\ memories = t.memories

---------------------------------------------------------------------------
(* Properties of error responses *)

\* C35: an authorize request that is answered with an error, among them
\* one whose redirect_uri cannot be parsed as a URL, is answered 400 and
\* leaves the code store as it was before the request.
C35_FailedAuthorizeStoresNoCode ==
    [][/\ (last'.op = "authorize" /\ ~IsUrl(last'.req.redirect_uri))
          => last'.status = 400
       /\ (last'.op = "authorize" /\ last'.status # 302)
          => authorizationCodes' = authorizationCodes]_vars

\* The step in which the file write of a store or delete has failed and its
\* handler has answered.
WriteFailedStep ==
    /\ Len(acked') = Len(acked) + 1
    /\ acked'[Len(acked')].failed

\* C36: a file write that fails during a store or delete neither fails nor
\* rolls back the operation: the handler answers 200 with success, the
\* memory list keeps the change, and memories.json is as it was or holds a
\* truncated content, so that the acknowledged list and the file can differ
\* (C36_Witness).
C36_FailedWriteIsSwallowed ==
    [][WriteFailedStep =>
          /\ last'.op \in {"store", "delete"}
          /\ last'.status = 200
          /\ last'.error = Undefined
          /\ last'.body.success
          /\ memories' = memories
          /\ last'.op = "store" /\ Len(writes) = 1 /\ Len(acked) = 0
               => last'.body.memory \in Records(memories')
          /\ memoryFile' = memoryFile \/ ~memoryFile'.parses]_vars

\* One store alone, acknowledged with 200 after its write has failed: the
\* list holds the record and there is no file.
C36_Witness ==
    /\ Len(acked) = 1
    /\ acked[1].failed
    /\ acked[1].op = "store"
    /\ ~acked[1].overlapped
    /\ writes = << >>
    /\ last.status = 200
    /\ Len(memories) = 1
    /\ memories[1].id = acked[1].id
    /\ memoryFile = NoFile
    /\ loadFallbackMemories(memoryFile) # memories

\* C37: in every reachable state each entry of the authorization code store
\* names a client_id that is in the client registry.
C37_CodesNameRegisteredClients ==
    \A code \in DOMAIN authorizationCodes :
        authorizationCodes[code].client_id \in DOMAIN oauthClients

\* A code is in the store and a request to authorize for a client that was
\* never registered has just been refused.
C37_Witness ==
    /\ authorizationCodes # << >>
    /\ last.op = "authorize"
    /\ last.req.client_id \notin DOMAIN oauthClients
    /\ last.error = "invalid_client"
    /\ \A code \in DOMAIN authorizationCodes :
           authorizationCodes[code].client_id # last.req.client_id

\* start() ends in this step: the server starts listening.
StartEnds == ~listening /\ listening'

\* C38: startup always completes: start() ends either because the child
\* announced 'Server started' (fallbackMode stays false) or because the
\* 30 s timer fired while not ready (fallbackMode becomes true and
\* memories.json is loaded); the server listens only after start() has
\* ended, and fallbackMode does not change afterwards, whatever the child
\* process does.
C38_StartupCompletes ==
    /\ ~listening ~> listening
    /\ [][StartEnds =>
             \/ isReady' /\ ~fallbackMode' /\ memories' = memories
             \/ /\ ~isReady' /\ timer' = "fired" /\ fallbackMode'
                /\ memories' = loadFallbackMemories(memoryFile)]_vars
    /\ [][listening /\ listening' => fallbackMode' = fallbackMode]_vars

====
